---- MODULE Spec2Model ----
(***************************************************************************)
(* A model of atmorep_analysis/utils/read_atmorep_data.py:                 *)
(* HandleAtmoRepData.get_global_field (patch mosaic assembly) and          *)
(* HandleAtmoRepData.read_data (archive layout dispatch).                  *)
(*                                                                         *)
(* Coordinates are degrees/timestamps.  Patch coordinates are integers;    *)
(* the axes np.linspace builds are exact rationals <<n, d>> in lowest      *)
(* terms, so a label lookup succeeds only on an exact match.  A cell value *)
(* is a record: a number, or the floating point not-a-number.              *)
(***************************************************************************)
EXTENDS Integers, Sequences, FiniteSets, TLC

VARIABLES
    da_list,      \* the argument of get_global_field: a sequence of patches
    pc,           \* position inside get_global_field
    data_coords,  \* the coordinate dictionary built at lines 234-237
    da_global,    \* the global array allocated at line 241
    da_global_dims,  \* its dimension names, in order
    da_global_shape, \* its length along each dimension
    idx,          \* position of the loop of line 247 in da_list
    err,          \* the exception get_global_field raised, or "none"
    config,       \* self.config: BERT_strategy, and whether token_overlap is a key
    archive,      \* the files the glob of line 265 finds, in the order it finds them
    read_one_file,\* the attribute self.read_one_file: "unset", "forecast" or "bert"
    call,         \* the arguments of the running read_data call
    args,         \* the local variable args of read_data: "unbound" until assigned
    filelist,     \* the local variable filelist of read_data
    fpos,         \* position of the loop of line 209 in filelist
    da,           \* the local variable da of read_data while it is a list
    rpc,          \* position inside read_data
    result,       \* what read_data returned: "none", "list" (da) or "global" (da_global)
    rerr,         \* the exception read_data raised, or "none"
    fields,       \* self.config[field_type_key]: one list per variable
    token_config, \* the dictionary _get_token_config built
    tpc           \* position inside _get_token_config

ggfvars == <<da_list, pc, data_coords, da_global, da_global_dims, da_global_shape,
             idx, err>>

readvars == <<config, archive, read_one_file, call, args, filelist, fpos, da, rpc,
              result, rerr>>

tokvars == <<fields, token_config, tpc>>

vars == <<ggfvars, readvars, tokvars>>

(***************************************************************************)
(* Cell values.                                                            *)
(***************************************************************************)
NaN == [nan |-> TRUE, val |-> 0]

Num(v) == [nan |-> FALSE, val |-> v]

\* xr.DataArray.isnull, for one cell (line 250)
isnull(x) == x.nan

(***************************************************************************)
(* Exact arithmetic for np.abs, int(a/b) and np.linspace.                  *)
(***************************************************************************)
Abs(x) == IF x < 0 THEN -x ELSE x

RECURSIVE Gcd(_, _)
Gcd(a, b) == IF b = 0 THEN a ELSE Gcd(b, a % b)

\* the rational n/d (d > 0) in lowest terms
Rat(n, d) ==
    LET g == Gcd(Abs(n), d)
    IN  <<n \div g, d \div g>>

\* a variant: the stop value left out
LinspaceClosedNoEndpoint(start, stop, num) ==
    [i \in 1..num |-> Rat(start * num + (i - 1) * (stop - start), num)]

\* np.linspace(start, stop, num, endpoint=True): num samples, both ends included
LinspaceClosed(start, stop, num) ==
    [i \in 1..num |->
        IF num = 1 THEN Rat(start, 1)
        ELSE Rat(start * (num - 1) + (i - 1) * (stop - start), num - 1)]

\* a variant: the stop value added as one more sample
LinspaceOpenWithEndpoint(start, stop, num) ==
    [i \in 1..(num + 1) |-> Rat(start * num + (i - 1) * (stop - start), num)]

\* np.linspace(start, stop, num, endpoint=False): num samples, stop excluded
LinspaceOpen(start, stop, num) ==
    [i \in 1..num |-> Rat(start * num + (i - 1) * (stop - start), num)]

Range(s) == {s[i] : i \in DOMAIN s}

\* sorted(set): the elements of a finite set of integers in increasing order
RECURSIVE SortedSeq(_)
SortedSeq(S) ==
    IF S = {} THEN <<>>
    ELSE LET m == CHOOSE x \in S : \A y \in S : x <= y
         IN  <<m>> \o SortedSeq(S \ {m})

(***************************************************************************)
(* Patches: the xr.DataArray objects read_one_forecast_file builds.        *)
(* A patch has dims (ml, datetime, lat, lon); the model-level axis ml is a *)
(* pass-through axis with the same levels in every patch.  The values of a *)
(* patch are not told apart along the pass-through axes, so a cell is      *)
(* addressed by its positions <<k, i, j>> along datetime, lat and lon.     *)
(* coords is the order of the entries of the coordinate dictionary, aux    *)
(* the coordinate vectors of the pass-through axes.                        *)
(***************************************************************************)
ForecastDims == <<"ml", "datetime", "lat", "lon">>

\* the single model level of the stored patches
SingleLevel == <<0>>

\* the data array of a patch: every cell a different number, and the numbers
\* of patches with different tags disjoint
PatchData(tag, nt, nlat, nlon) ==
    [c \in (1..nt) \X (1..nlat) \X (1..nlon) |->
        Num(tag * 100 + c[1] * 16 + c[2] * 4 + c[3])]

\* a DataArray with the given dims, coordinate entries and model levels
PatchWith(dims, coords, levels, times, lats, lons, tag) ==
    [dims     |-> dims,
     coords   |-> coords,
     aux      |-> [k \in {"ml"} |-> levels],
     datetime |-> times,
     lat      |-> lats,
     lon      |-> lons,
     data     |-> PatchData(tag, Len(times), Len(lats), Len(lons))]

Patch(times, lats, lons, tag) ==
    [dims     |-> ForecastDims,
     coords   |-> ForecastDims,
     aux      |-> [k \in {"ml"} |-> SingleLevel],
     datetime |-> times,
     lat      |-> lats,
     lon      |-> lons,
     data     |-> PatchData(tag, Len(times), Len(lats), Len(lons))]

(***************************************************************************)
(* get_global_field, lines 227-237: the coordinates of the global array.   *)
(***************************************************************************)
LatMin == -90
LatMax == 90
LonMin == 0
LonMax == 360

\* a variant: the time stamps of the first patch alone
times_first(dl) == IF dl = <<>> THEN {} ELSE Range(dl[1].datetime)

\* line 228: the time stamps of all patches, as a set
times_unique(dl) == UNION {Range(dl[n].datetime) : n \in DOMAIN dl}

\* lines 229-230: the spacing of the first patch
dx(dl) == Abs(dl[1].lon[2] - dl[1].lon[1])

dy(dl) == Abs(dl[1].lat[2] - dl[1].lat[1])

\* a variant: the latitudes from north to south
LatAxisDescending(step) ==
    LinspaceClosed(LatMax, LatMin, ((LatMax - LatMin) \div step) + 1)

\* line 235; int(180/dy) truncates
LatAxis(step) == LinspaceClosed(LatMin, LatMax, ((LatMax - LatMin) \div step) + 1)

\* line 236; int(360/dx) truncates
LonAxis(step) == LinspaceOpen(LonMin, LonMax, (LonMax - LonMin) \div step)

\* lines 228-237 raise before any coordinate is built:
\* da_list[0] on an empty list, [1] on an axis of length one (IndexError),
\* int() of a division by a zero spacing (OverflowError)
GridError(dl) ==
    IF Len(dl) = 0 THEN "IndexError"
    ELSE IF Len(dl[1].lon) < 2 \/ Len(dl[1].lat) < 2 THEN "IndexError"
    ELSE IF dx(dl) = 0 \/ dy(dl) = 0 THEN "OverflowError"
    ELSE "none"

\* s without its elements in S
Without(s, S) == SelectSeq(s, LAMBDA k : k \notin S)

\* lines 234-237, the order of the entries of data_coords: the entries of
\* the first patch without lat and lon, then lat and lon; datetime keeps the
\* place it has, and is appended when the first patch has no such entry
CoordKeys(p) ==
    LET kept == Without(p.coords, {"lat", "lon"}) \o <<"lat", "lon">>
    IN  IF "datetime" \in Range(kept) THEN kept ELSE kept \o <<"datetime">>

\* lines 234-237
GlobalCoords(dl) ==
    [keys     |-> CoordKeys(dl[1]),
     aux      |-> dl[1].aux,
     lat      |-> LatAxis(dy(dl)),
     lon      |-> LonAxis(dx(dl)),
     datetime |-> SortedSeq(times_unique(dl))]

NoCoords == [keys |-> <<>>, aux |-> <<>>, lat |-> <<>>, lon |-> <<>>, datetime |-> <<>>]

\* len(data_coords[k])
CoordLen(coords, k) ==
    CASE k = "lat"      -> Len(coords.lat)
      [] k = "lon"      -> Len(coords.lon)
      [] k = "datetime" -> Len(coords.datetime)
      [] OTHER          -> Len(coords.aux[k])

(***************************************************************************)
(* get_global_field, lines 241-245: allocation.  np.empty returns memory   *)
(* that is not initialised: what the cells hold is whatever the allocator  *)
(* hands out.  The outcomes kept here: all not-a-number, all zero bits,    *)
(* and a mixture.                                                          *)
(***************************************************************************)
\* line 242: tuple(len(d) for d in data_coords.values()), the lengths in the
\* order of the entries of the dictionary
Shape(coords) == [i \in DOMAIN coords.keys |-> CoordLen(coords, coords.keys[i])]

\* lines 241-245, xr.DataArray(data, coords, dims) raises ValueError when the
\* data have another number of axes than dims has names, when a coordinate
\* is not a dimension, or when the length of a coordinate differs from the
\* length of the data along its dimension
AllocError(coords, dims) ==
    LET shape == Shape(coords)
    IN  \/ Len(shape) # Len(dims)
        \/ \E k \in Range(coords.keys) : k \notin Range(dims)
        \/ \E i \in DOMAIN dims :
              dims[i] \in Range(coords.keys) /\ shape[i] # CoordLen(coords, dims[i])

Cells(coords) ==
    (1..Len(coords.datetime)) \X (1..Len(coords.lat)) \X (1..Len(coords.lon))

UninitPatterns == {"nan", "zero", "mixed"}

np_empty(coords, pattern) ==
    [c \in Cells(coords) |->
        CASE pattern = "nan"   -> NaN
          [] pattern = "zero"  -> Num(0)
          [] pattern = "mixed" -> IF (c[1] + c[2] + c[3]) % 2 = 0 THEN NaN ELSE Num(0)]

(***************************************************************************)
(* get_global_field, line 248: da_global.loc[{...}] = da.                  *)
(* Each label vector is looked up in the index of its axis; a label that   *)
(* is not in the index raises KeyError.  The three position vectors index  *)
(* the array orthogonally, and the patch is written by dimension name.     *)
(***************************************************************************)
\* the position of label v in axis, 0 when it is not there
Pos(axis, v) ==
    IF \E n \in DOMAIN axis : axis[n] = v
    THEN CHOOSE n \in DOMAIN axis : axis[n] = v
    ELSE 0

LatPos(coords, p) == [i \in DOMAIN p.lat |-> Pos(coords.lat, Rat(p.lat[i], 1))]

LonPos(coords, p) == [j \in DOMAIN p.lon |-> Pos(coords.lon, Rat(p.lon[j], 1))]

TimePos(coords, p) == [k \in DOMAIN p.datetime |-> Pos(coords.datetime, p.datetime[k])]

\* a variant: labels that are not in the index are skipped
LocKeyErrorNever(coords, p) == FALSE

\* map_index_queries: not all values found in index
LocKeyError(coords, p) ==
    \/ 0 \in Range(LatPos(coords, p))
    \/ 0 \in Range(LonPos(coords, p))
    \/ 0 \in Range(TimePos(coords, p))

\* a variant: the patch written at its own positions, not at those of its labels
LocAssignPositional(g, coords, p) ==
    [c \in DOMAIN g |->
        IF c[1] \in DOMAIN p.datetime /\ c[2] \in DOMAIN p.lat /\ c[3] \in DOMAIN p.lon
        THEN p.data[c]
        ELSE g[c]]

LocAssign(g, coords, p) ==
    LET tp == TimePos(coords, p)
        ap == LatPos(coords, p)
        op == LonPos(coords, p)
    IN  [c \in DOMAIN g |->
            IF c[1] \in Range(tp) /\ c[2] \in Range(ap) /\ c[3] \in Range(op)
            THEN p.data[<<Pos(tp, c[1]), Pos(ap, c[2]), Pos(op, c[3])>>]
            ELSE g[c]]

(***************************************************************************)
(* The patch lists get_global_field is called with.                        *)
(***************************************************************************)
MaxPatches == 2

TimeSeqs == {<<0>>, <<1>>, <<0, 1>>, <<1, 0>>}

\* <<lat vector, lon vector>> of a patch: the two halves and the whole of the
\* grid of spacing 90 x 180, a patch that skips a row, and one off that grid
SpaceSeqs ==
    {<<(<<-90, 0>>), (<<0, 180>>)>>,
     <<(<<90>>), (<<0, 180>>)>>,
     <<(<<-90, 0, 90>>), (<<0, 180>>)>>,
     <<(<<90, -90>>), (<<0, 180>>)>>,
     <<(<<-45, 0>>), (<<0, 120>>)>>}

Tags == {1, 2}

PatchFamily ==
    {Patch(t, s[1], s[2], g) : t \in TimeSeqs, s \in SpaceSeqs, g \in Tags}

RECURSIVE SeqsUpTo(_, _)
SeqsUpTo(S, n) ==
    IF n = 0 THEN {<<>>}
    ELSE LET shorter == SeqsUpTo(S, n - 1)
         IN  shorter \cup {Append(q, x) : q \in shorter, x \in S}

PatchLists == SeqsUpTo(PatchFamily, MaxPatches)

(***************************************************************************)
(* get_global_field as a state machine.                                    *)
(***************************************************************************)
NoArray == <<>>

\* _get_token_config is not running
NoTok ==
    /\ fields = <<>>
    /\ token_config = <<>>
    /\ tpc = "idle"

\* get_global_field called on its own: no read_data call is running
NoRead ==
    /\ config = [BERT_strategy |-> "forecast", token_overlap |-> FALSE]
    /\ archive = <<>>
    /\ read_one_file = "unset"
    /\ call = [data_type |-> "pred", ml_is_int |-> FALSE]
    /\ args = "unbound"
    /\ filelist = <<>>
    /\ fpos = 0
    /\ da = <<>>
    /\ rpc = "direct"
    /\ result = "none"
    /\ rerr = "none"

Init ==
    /\ da_list \in PatchLists
    /\ pc = "coords"
    /\ data_coords = NoCoords
    /\ da_global = NoArray
    /\ da_global_dims = <<>>
    /\ da_global_shape = <<>>
    /\ idx = 0
    /\ err = "none"
    /\ NoRead
    /\ NoTok

\* lines 227-237
BuildCoords ==
    /\ pc = "coords"
    /\ IF GridError(da_list) # "none"
       THEN /\ pc' = "raised"
            /\ err' = GridError(da_list)
            /\ UNCHANGED data_coords
       ELSE /\ pc' = "alloc"
            /\ data_coords' = GlobalCoords(da_list)
            /\ UNCHANGED err
    /\ UNCHANGED <<da_list, da_global, da_global_dims, da_global_shape, idx>>
    /\ UNCHANGED <<readvars, tokvars>>

\* lines 239-245
Allocate ==
    /\ pc = "alloc"
    /\ IF AllocError(data_coords, da_list[1].dims)
       THEN /\ pc' = "raised"
            /\ err' = "ValueError"
            /\ UNCHANGED <<da_global, da_global_dims, da_global_shape, idx>>
       ELSE /\ \E pattern \in UninitPatterns :
                  da_global' = np_empty(data_coords, pattern)
            /\ da_global_dims' = da_list[1].dims
            /\ da_global_shape' = Shape(data_coords)
            /\ idx' = 1
            /\ pc' = "fill"
            /\ UNCHANGED err
    /\ UNCHANGED <<da_list, data_coords>>
    /\ UNCHANGED <<readvars, tokvars>>

\* a variant: the patches taken from the last to the first
LoopPatchReversed(dl, i) == dl[Len(dl) + 1 - i]

\* line 247: the patches are taken in list order
LoopPatch(dl, i) == dl[i]

\* lines 247-248, one patch
FillPatch ==
    /\ pc = "fill"
    /\ idx <= Len(da_list)
    /\ LET patch == LoopPatch(da_list, idx)
       IN  IF LocKeyError(data_coords, patch)
           THEN /\ pc' = "raised"
                /\ err' = "KeyError"
                /\ UNCHANGED <<da_global, idx>>
           ELSE /\ da_global' = LocAssign(da_global, data_coords, patch)
                /\ idx' = idx + 1
                /\ UNCHANGED <<pc, err>>
    /\ UNCHANGED <<da_list, data_coords, da_global_dims, da_global_shape>>
    /\ UNCHANGED <<readvars, tokvars>>

\* line 250
AnyNull(g) == \E c \in DOMAIN g : isnull(g[c])

\* lines 250-253
CheckAndReturn ==
    /\ pc = "fill"
    /\ idx > Len(da_list)
    /\ IF AnyNull(da_global)
       THEN /\ pc' = "raised"
            /\ err' = "ValueError"
       ELSE /\ pc' = "returned"
            /\ UNCHANGED err
    /\ UNCHANGED <<da_list, data_coords, da_global, da_global_dims, da_global_shape, idx>>
    /\ UNCHANGED <<readvars, tokvars>>

Next ==
    \/ BuildCoords
    \/ Allocate
    \/ FillPatch
    \/ CheckAndReturn

Spec == Init /\ [][Next]_vars

(***************************************************************************)
(* The derivation of the coordinates alone (lines 227-237), on lists whose *)
(* first patch has a spacing from one degree up to more than half of the   *)
(* globe, ascending or descending, and whose patches share time stamps.    *)
(***************************************************************************)
MaxAxisPatches == 3

AxisTimeSeqs == {<<0, 1>>, <<1, 2>>, <<2, 3>>, <<3, 0>>}

AxisSteps == {1, 2, 7, 45, 90, 180, 200}

\* the first patch of a list: two latitudes and two longitudes, step apart
FirstPatch(t, sy, sx) ==
    IF sy > 0 /\ sx > 0
    THEN Patch(t, <<-90, -90 + sy>>, <<0, sx>>, 1)
    ELSE Patch(t, <<-90 - sy, -90>>, <<-sx, 0>>, 1)

AxisLists ==
    {[n \in DOMAIN ts |->
        IF n = 1 THEN FirstPatch(ts[n], o * sy, o * sx)
        ELSE Patch(ts[n], <<-90, 0>>, <<0, 180>>, 2)] :
     ts \in SeqsUpTo(AxisTimeSeqs, MaxAxisPatches),
     sy \in AxisSteps, sx \in AxisSteps, o \in {1, -1}}

InitAxes ==
    /\ da_list \in AxisLists
    /\ pc = "coords"
    /\ data_coords = NoCoords
    /\ da_global = NoArray
    /\ da_global_dims = <<>>
    /\ da_global_shape = <<>>
    /\ idx = 0
    /\ err = "none"
    /\ NoRead
    /\ NoTok

NextAxes == BuildCoords

SpecAxes == InitAxes /\ [][NextAxes]_vars

(***************************************************************************)
(* read_data, lines 180-222, and the file list of lines 256-273.           *)
(***************************************************************************)
known_data_types == {"source", "pred", "target", "ens"}

DataTypes == known_data_types \cup {"mean"}

Strategies == {"forecast", "BERT", "temporal_interpolation"}

BertDims == <<"itoken", "t", "y", "x">>

\* line 127: range(nens), for two ensemble members
EnsembleMembers == <<0, 1>>

\* read_one_forecast_file, lines 125-154: one DataArray per stored patch
read_one_forecast_file(file, data_type) ==
    [n \in DOMAIN file.patches |->
        IF data_type = "ens"
        THEN [file.patches[n] EXCEPT
                 !.dims = <<"ensemble">> \o ForecastDims,
                 !.coords = <<"ensemble">> \o ForecastDims,
                 !.aux = [k \in {"ensemble", "ml"} |->
                             IF k = "ensemble" THEN EnsembleMembers
                             ELSE file.patches[n].aux.ml]]
        ELSE [file.patches[n] EXCEPT
                 !.dims = ForecastDims,
                 !.coords = ForecastDims]]

\* read_one_bert_file, lines 161-178
read_one_bert_file(file, data_type) ==
    LET dims == IF data_type = "ens"
                THEN <<"itoken", "ensemble", "t", "y", "x">>
                ELSE BertDims
    IN  [n \in DOMAIN file.patches |->
            [file.patches[n] EXCEPT
                !.dims = dims,
                !.coords = <<"datetime", "lat", "lon">> \o dims]]

\* line 210: self.read_one_file(f, **args)
ReadOneFile(reader, file, data_type) ==
    IF reader = "forecast" THEN read_one_forecast_file(file, data_type)
    ELSE read_one_bert_file(file, data_type)

\* sorted(filelist, key=epoch number), lines 271 and 276-278: a stable sort
RECURSIVE InsertByEpoch(_, _)
InsertByEpoch(sorted, f) ==
    IF sorted = <<>> THEN <<f>>
    ELSE IF Head(sorted).epoch <= f.epoch
         THEN <<Head(sorted)>> \o InsertByEpoch(Tail(sorted), f)
         ELSE <<f>> \o sorted

RECURSIVE SortedFiles(_)
SortedFiles(files) ==
    IF files = <<>> THEN <<>>
    ELSE InsertByEpoch(SortedFiles(SubSeq(files, 1, Len(files) - 1)),
                       files[Len(files)])

\* lines 191-203: the reader for a strategy and a data type
ReaderFor(strategy, data_type) ==
    IF strategy = "forecast" THEN "forecast"
    ELSE IF data_type = "source" THEN "forecast"
    ELSE "bert"

\* a variant: the branch of line 205 binds the arguments of the bert reader
ArgsDefaulted(strategy, data_type) == ReaderFor(strategy, data_type)

\* lines 191-205: the local args after the dispatch; the branch of line 205
\* only prints a message and binds nothing
ArgsAfterDispatch(strategy, data_type) ==
    IF strategy \in {"forecast", "BERT"}
    THEN ReaderFor(strategy, data_type)
    ELSE "unbound"

\* lines 191-205: self.read_one_file after the dispatch; the branch of line
\* 205 leaves the attribute as an earlier call set it, or unset
ReaderAfterDispatch(strategy, data_type, previous) ==
    IF strategy \in {"forecast", "BERT"}
    THEN ReaderFor(strategy, data_type)
    ELSE previous

(***************************************************************************)
(* The result directories read_data is run on.                             *)
(***************************************************************************)
MaxFiles == 2

Epochs == {0, 1}

\* the patches of the files: the two halves of the grid of spacing 90 x 180
\* and a patch off that grid
ReadFamily ==
    {Patch(<<0>>, <<-90, 0>>, <<0, 180>>, 1),
     Patch(<<0>>, <<90>>, <<0, 180>>, 1),
     Patch(<<0>>, <<-45, 0>>, <<0, 120>>, 2)}

FileContents ==
    {<<p>> : p \in ReadFamily}
        \cup {<<p, q>> : p \in {Patch(<<0>>, <<-90, 0>>, <<0, 180>>, 1)}, q \in ReadFamily}

Files == {[epoch |-> e, patches |-> c] : e \in Epochs, c \in FileContents}

Archives == SeqsUpTo(Files, MaxFiles)

InitRead ==
    /\ config \in [BERT_strategy : Strategies, token_overlap : BOOLEAN]
    /\ archive \in Archives
    /\ read_one_file = "unset"
    /\ call = [data_type |-> "pred", ml_is_int |-> FALSE]
    /\ args = "unbound"
    /\ filelist = <<>>
    /\ fpos = 0
    /\ da = <<>>
    /\ rpc = "idle"
    /\ result = "none"
    /\ rerr = "none"
    /\ NoTok
    /\ da_list = <<>>
    /\ pc = "idle"
    /\ data_coords = NoCoords
    /\ da_global = NoArray
    /\ da_global_dims = <<>>
    /\ da_global_shape = <<>>
    /\ idx = 0
    /\ err = "none"

\* read_data raises e
Raise(e) ==
    /\ rpc' = "done"
    /\ rerr' = e
    /\ result' = "none"

\* lines 187-208: a call of read_data up to the loop over the files
ReadDataStart ==
    /\ rpc \in {"idle", "done"}
    /\ \E dt \in DataTypes, m \in BOOLEAN :
          /\ call' = [data_type |-> dt, ml_is_int |-> m]
          /\ IF dt \notin known_data_types
             THEN /\ Raise("AssertionError")
                  /\ filelist' = <<>>
                  /\ args' = "unbound"
                  /\ fpos' = 0
                  /\ UNCHANGED read_one_file
             ELSE IF Len(archive) = 0
             THEN /\ Raise("FileNotFoundError")
                  /\ filelist' = <<>>
                  /\ args' = "unbound"
                  /\ fpos' = 0
                  /\ UNCHANGED read_one_file
             ELSE IF config.BERT_strategy = "BERT" /\ ~m
             THEN /\ Raise("AssertionError")
                  /\ filelist' = SortedFiles(archive)
                  /\ args' = "unbound"
                  /\ fpos' = 0
                  /\ UNCHANGED read_one_file
             ELSE /\ filelist' = SortedFiles(archive)
                  /\ read_one_file' = ReaderAfterDispatch(config.BERT_strategy, dt, read_one_file)
                  /\ args' = ArgsAfterDispatch(config.BERT_strategy, dt)
                  /\ fpos' = 1
                  /\ rpc' = "loop"
                  /\ result' = "none"
                  /\ rerr' = "none"
    /\ da' = <<>>
    /\ pc' = "idle"
    /\ da_list' = <<>>
    /\ data_coords' = NoCoords
    /\ da_global' = NoArray
    /\ da_global_dims' = <<>>
    /\ da_global_shape' = <<>>
    /\ idx' = 0
    /\ err' = "none"
    /\ UNCHANGED <<config, archive>>
    /\ UNCHANGED tokvars

\* lines 209-210, one file
ReadDataFile ==
    /\ rpc = "loop"
    /\ fpos <= Len(filelist)
    /\ IF read_one_file = "unset"
       THEN /\ Raise("AttributeError")
            /\ UNCHANGED <<da, fpos>>
       ELSE IF args = "unbound"
       THEN /\ Raise("UnboundLocalError")
            /\ UNCHANGED <<da, fpos>>
       ELSE /\ da' = da \o ReadOneFile(read_one_file, filelist[fpos], call.data_type)
            /\ fpos' = fpos + 1
            /\ UNCHANGED <<rpc, rerr, result>>
    /\ UNCHANGED <<config, archive, read_one_file, call, args, filelist>>
    /\ UNCHANGED <<ggfvars, tokvars>>

\* lines 214-216: get_global_field is called for the forecast strategy when
\* token_overlap is a key of the configuration
Assemble(cfg) == cfg.BERT_strategy = "forecast" /\ cfg.token_overlap

\* lines 214-222 without the call of line 217: da is returned as it is
ReadDataReturnList ==
    /\ rpc = "loop"
    /\ fpos > Len(filelist)
    /\ ~Assemble(config)
    /\ rpc' = "done"
    /\ result' = "list"
    /\ UNCHANGED <<config, archive, read_one_file, call, args, filelist, fpos, da, rerr>>
    /\ UNCHANGED <<ggfvars, tokvars>>

\* line 217: the call of get_global_field(da)
ReadDataAssemble ==
    /\ rpc = "loop"
    /\ fpos > Len(filelist)
    /\ Assemble(config)
    /\ rpc' = "assemble"
    /\ da_list' = da
    /\ pc' = "coords"
    /\ UNCHANGED <<data_coords, da_global, da_global_dims, da_global_shape, idx, err>>
    /\ UNCHANGED <<config, archive, read_one_file, call, args, filelist, fpos, da,
                   result, rerr>>
    /\ UNCHANGED tokvars

\* lines 217-222: get_global_field returned or raised.  The try statement of
\* line 215 encloses the call, so a KeyError it raises is caught at line 219
\* and da is still the list.
ReadDataAfterAssemble ==
    /\ rpc = "assemble"
    /\ pc \in {"returned", "raised"}
    /\ IF pc = "returned"
       THEN /\ rpc' = "done"
            /\ result' = "global"
            /\ UNCHANGED rerr
       ELSE IF err = "KeyError"
       THEN /\ rpc' = "done"
            /\ result' = "list"
            /\ UNCHANGED rerr
       ELSE Raise(err)
    /\ UNCHANGED <<config, archive, read_one_file, call, args, filelist, fpos, da>>
    /\ UNCHANGED <<ggfvars, tokvars>>

NextRead ==
    \/ ReadDataStart
    \/ ReadDataFile
    \/ ReadDataReturnList
    \/ ReadDataAssemble
    \/ ReadDataAfterAssemble
    \/ BuildCoords
    \/ Allocate
    \/ FillPatch
    \/ CheckAndReturn

SpecRead == InitRead /\ [][NextRead]_vars

(***************************************************************************)
(* read_data on an object whose configuration the caller edits between     *)
(* two calls: self.config is a plain dict held by the object (line 27),    *)
(* and self.read_one_file (lines 193, 198, 202) outlives the call that set *)
(* it.                                                                     *)
(***************************************************************************)
SetStrategy ==
    /\ rpc \in {"idle", "done"}
    /\ \E s \in Strategies \ {config.BERT_strategy} :
          config' = [config EXCEPT !.BERT_strategy = s]
    /\ rpc' = "idle"
    /\ result' = "none"
    /\ rerr' = "none"
    /\ da' = <<>>
    /\ UNCHANGED <<archive, read_one_file, call, args, filelist, fpos>>
    /\ UNCHANGED <<ggfvars, tokvars>>

NextReconfig ==
    \/ NextRead
    \/ SetStrategy

SpecReconfig == InitRead /\ [][NextReconfig]_vars

(***************************************************************************)
(* get_global_field on first patches whose dims and coordinate entries     *)
(* come in several orders, up to the allocation of lines 241-245.          *)
(***************************************************************************)
MaxLevels == 2

\* the model levels 0 .. n-1
Levels(n) == [i \in 1..n |-> i - 1]

AxisOrders ==
    {<<"ml", "datetime", "lat", "lon">>,
     <<"datetime", "ml", "lat", "lon">>,
     <<"ml", "lat", "lon", "datetime">>,
     <<"datetime", "lat", "lon", "ml">>}

ShapeTimeSeqs == {<<0>>, <<0, 1>>, <<0, 1, 2>>}

ShapeFirstPatches ==
    {PatchWith(dims, coords, Levels(n), times, <<-90, 0>>, <<0, 180>>, 1) :
        dims \in AxisOrders, coords \in AxisOrders, n \in 1..MaxLevels,
        times \in ShapeTimeSeqs}

\* the first patch alone, or followed by a patch with one more time stamp
ShapeLists ==
    {<<p>> : p \in ShapeFirstPatches}
        \cup {<<p, PatchWith(p.dims, p.coords, p.aux.ml, <<3>>, <<90>>, <<0, 180>>, 2)>> :
                 p \in ShapeFirstPatches}

InitShape ==
    /\ da_list \in ShapeLists
    /\ pc = "coords"
    /\ data_coords = NoCoords
    /\ da_global = NoArray
    /\ da_global_dims = <<>>
    /\ da_global_shape = <<>>
    /\ idx = 0
    /\ err = "none"
    /\ NoRead
    /\ NoTok

NextShape ==
    \/ BuildCoords
    \/ Allocate

SpecShape == InitShape /\ [][NextShape]_vars

(***************************************************************************)
(* _get_token_config (lines 76-95).  A variable list of the configuration  *)
(* is <<name, general_config, vlevel, num_tokens, token_shape,             *)
(* bert_parameters>>; each of the five items is itself a list of numbers.  *)
(***************************************************************************)
token_config_keys ==
    <<"general_config", "vlevel", "num_tokens", "token_shape", "bert_parameters">>

\* line 82
var_names(fl) == [i \in DOMAIN fl |-> fl[i][1]]

\* line 83
token_config_values(fl) == [i \in DOMAIN fl |-> Tail(fl[i])]

\* zip of line 90: pairs up to the shorter of the two sequences
zip(a, b) ==
    [i \in 1..(IF Len(a) <= Len(b) THEN Len(a) ELSE Len(b)) |-> <<a[i], b[i]>>]

\* lines 86-93: the loop over product(var_names, zip(...)) stores, for every
\* variable name, every pair of the zip; a later pair with the same key
\* would overwrite an earlier one
get_token_config(fl) ==
    LET pairs == zip(token_config_keys, token_config_values(fl))
        last(k) == CHOOSE i \in DOMAIN pairs :
                      /\ pairs[i][1] = k
                      /\ \A j \in DOMAIN pairs : pairs[j][1] = k => j <= i
    IN  [name \in Range(var_names(fl)) |->
            [k \in {pairs[i][1] : i \in DOMAIN pairs} |-> pairs[last(k)][2]]]

MaxVars == 3

VarNames == {"velocity_u", "velocity_v", "temperature", "specific_humidity"}

ConfigVariants == {1, 2}

\* the list of a variable: its items are told apart by variant and position
VarList(name, variant) ==
    <<name>> \o [j \in 1..Len(token_config_keys) |-> <<10 * variant + j>>]

\* the field lists: variables with distinct names
FieldLists ==
    {fl \in SeqsUpTo({VarList(n, c) : n \in VarNames, c \in ConfigVariants}, MaxVars) :
        \A i, j \in DOMAIN fl : fl[i][1] = fl[j][1] => i = j}

InitTok ==
    /\ fields \in FieldLists
    /\ token_config = <<>>
    /\ tpc = "idle"
    /\ da_list = <<>>
    /\ pc = "idle"
    /\ data_coords = NoCoords
    /\ da_global = NoArray
    /\ da_global_dims = <<>>
    /\ da_global_shape = <<>>
    /\ idx = 0
    /\ err = "none"
    /\ NoRead

\* lines 76-95
GetTokenConfig ==
    /\ tpc = "idle"
    /\ token_config' = get_token_config(fields)
    /\ tpc' = "done"
    /\ UNCHANGED fields
    /\ UNCHANGED <<ggfvars, readvars>>

NextTok == GetTokenConfig

SpecTok == InitTok /\ [][NextTok]_vars

(***************************************************************************)
(* Vocabulary of the properties, stated from the labels of the patches.    *)
(***************************************************************************)
Done == pc \in {"returned", "raised"}

\* patch p has a cell labelled like cell c of the global array
HasLabels(coords, p, c) ==
    /\ coords.datetime[c[1]] \in Range(p.datetime)
    /\ \E i \in DOMAIN p.lat : Rat(p.lat[i], 1) = coords.lat[c[2]]
    /\ \E j \in DOMAIN p.lon : Rat(p.lon[j], 1) = coords.lon[c[3]]

\* the value patch p holds at the labels of cell c
ValueAt(coords, p, c) ==
    LET k == CHOOSE k \in DOMAIN p.datetime : p.datetime[k] = coords.datetime[c[1]]
        i == CHOOSE i \in DOMAIN p.lat : Rat(p.lat[i], 1) = coords.lat[c[2]]
        j == CHOOSE j \in DOMAIN p.lon : Rat(p.lon[j], 1) = coords.lon[c[3]]
    IN  p.data[<<k, i, j>>]

\* every label of p is a label of the global array
OnGrid(coords, p) ==
    /\ \A k \in DOMAIN p.datetime : p.datetime[k] \in Range(coords.datetime)
    /\ \A i \in DOMAIN p.lat : Rat(p.lat[i], 1) \in Range(coords.lat)
    /\ \A j \in DOMAIN p.lon : Rat(p.lon[j], 1) \in Range(coords.lon)

\* the patches of dl among the first n that have the labels of cell c
Covering(coords, dl, n, c) ==
    {m \in 1..n : HasLabels(coords, dl[m], c)}

Max(S) == CHOOSE x \in S : \A y \in S : y <= x

\* dl tiles the grid derived from it: all patches on the grid, and every cell
\* of the grid in exactly one patch
Tiles(dl) ==
    /\ GridError(dl) = "none"
    /\ LET coords == GlobalCoords(dl)
       IN  /\ \A n \in DOMAIN dl : OnGrid(coords, dl[n])
           /\ \A c \in Cells(coords) :
                  Cardinality(Covering(coords, dl, Len(dl), c)) = 1

InsertAt(dl, k, p) == SubSeq(dl, 1, k - 1) \o <<p>> \o SubSeq(dl, k, Len(dl))

\* dl is a tiling list with one patch taken out, and what is left still
\* derives the grid of the tiling
TilingLessOne(dl) ==
    /\ dl # <<>>
    /\ GridError(dl) = "none"
    /\ \E p \in PatchFamily, k \in 1..(Len(dl) + 1) :
          /\ Tiles(InsertAt(dl, k, p))
          /\ GlobalCoords(InsertAt(dl, k, p)) = GlobalCoords(dl)

(***************************************************************************)
(* C1 (coverage failure).  A list that tiles the global grid, with one     *)
(* patch removed, makes get_global_field raise the coverage error          *)
(* (ValueError): it never returns an array.                                *)
(***************************************************************************)
C1_CoverageFailure ==
    (Done /\ TilingLessOne(da_list)) => (pc = "raised" /\ err = "ValueError")

(***************************************************************************)
(* C2 (coverage completeness).  For a list that tiles the derived grid,    *)
(* get_global_field never raises, and the array it returns holds in every  *)
(* cell the value of the one patch with the labels of that cell.           *)
(***************************************************************************)
C2_CoverageComplete ==
    Tiles(da_list) =>
        /\ pc # "raised"
        /\ pc = "returned" =>
              /\ DOMAIN da_global = Cells(GlobalCoords(da_list))
              /\ \A c \in DOMAIN da_global :
                    LET n == CHOOSE n \in DOMAIN da_list :
                                 HasLabels(data_coords, da_list[n], c)
                    IN  /\ da_global[c] = ValueAt(data_coords, da_list[n], c)
                        /\ ~isnull(da_global[c])

\* a tiling of two or more patches was assembled
C2_Witness ==
    /\ pc = "returned"
    /\ Len(da_list) >= 2
    /\ Tiles(da_list)

(***************************************************************************)
(* C3 (empty input).  get_global_field on an empty list fails with a       *)
(* dedicated "empty input" error, raised before the first element of the   *)
(* list is indexed.                                                        *)
(***************************************************************************)
C3_EmptyInput ==
    (da_list = <<>> /\ pc = "raised") => err = "EmptyInputError"

(***************************************************************************)
(* C4 (overlap resolution).  Patches are written in list order and the     *)
(* last writer wins: while the array is filled and when it is returned,    *)
(* every cell that one or more of the patches written so far cover holds   *)
(* the value of the last of them in the list; and an overlap raises        *)
(* nothing: each error has a cause that is not the overlap.                *)
(***************************************************************************)
C4_LastWriterWins ==
    /\ (pc \in {"fill", "returned"}) =>
          \A c \in DOMAIN da_global :
              LET cov == Covering(data_coords, da_list, idx - 1, c)
              IN  cov # {} =>
                      da_global[c] = ValueAt(data_coords, da_list[Max(cov)], c)
    /\ (pc = "raised") =>
          \/ err = "IndexError" /\ GridError(da_list) = "IndexError"
          \/ err = "KeyError" /\ ~OnGrid(data_coords, da_list[idx])
          \/ /\ err = "ValueError"
             /\ \E c \in DOMAIN da_global :
                    Covering(data_coords, da_list, Len(da_list), c) = {}

\* an array was returned in which a cell is covered by two or more patches
\* that hold different values there
C4_Witness ==
    /\ pc = "returned"
    /\ \E c \in DOMAIN da_global :
          LET cov == Covering(data_coords, da_list, Len(da_list), c)
          IN  /\ Cardinality(cov) >= 2
              /\ \E m \in cov : ValueAt(data_coords, da_list[m], c) # da_global[c]

\* the one patch of dl spans the globe with its own spacing: latitudes from
\* -90 through 90, longitudes from 0 up to but not including 360, both in even
\* ascending steps, and ascending time stamps
IsWholeGrid(dl) ==
    /\ Len(dl) = 1
    /\ LET p == dl[1]
           nlat == Len(p.lat)
           nlon == Len(p.lon)
       IN  /\ nlat >= 2 /\ nlon >= 2
           /\ p.lat[1] = -90 /\ p.lat[nlat] = 90
           /\ \A i \in 1..(nlat - 1) : p.lat[i + 1] - p.lat[i] = p.lat[2] - p.lat[1]
           /\ p.lon[1] = 0 /\ p.lon[nlon] = 360 - (p.lon[2] - p.lon[1])
           /\ \A j \in 1..(nlon - 1) : p.lon[j + 1] - p.lon[j] = p.lon[2] - p.lon[1]
           /\ p.lon[2] > p.lon[1] /\ p.lat[2] > p.lat[1]
           /\ \A k \in 1..(Len(p.datetime) - 1) : p.datetime[k] < p.datetime[k + 1]

(***************************************************************************)
(* C5 (round trip).  For a list of one patch whose lat, lon and datetime   *)
(* vectors equal the derived grid, get_global_field returns an array with  *)
(* the coordinates, the shape and the values of that patch.                *)
(***************************************************************************)
C5_RoundTrip ==
    (Done /\ IsWholeGrid(da_list)) =>
        /\ pc = "returned"
        /\ da_global = da_list[1].data
        /\ data_coords.datetime = da_list[1].datetime
        /\ \A i \in DOMAIN da_list[1].lat : data_coords.lat[i] = <<da_list[1].lat[i], 1>>
        /\ \A j \in DOMAIN da_list[1].lon : data_coords.lon[j] = <<da_list[1].lon[j], 1>>

C5_Witness ==
    /\ pc = "returned"
    /\ IsWholeGrid(da_list)
    /\ Len(da_list[1].datetime) = 2

(***************************************************************************)
(* C10 (sentinel initialisation).  When the global array has been          *)
(* allocated and no patch has been written yet, every cell holds the       *)
(* "unpopulated" sentinel, not-a-number.                                   *)
(***************************************************************************)
C10_SentinelInit ==
    (pc = "fill" /\ idx = 1) => \A c \in DOMAIN da_global : isnull(da_global[c])

(***************************************************************************)
(* C6 (datetime union).  For a non-empty list, the datetime axis of the    *)
(* derived grid holds every time stamp of every patch, nothing else, in    *)
(* strictly increasing order (so without duplicates).                      *)
(***************************************************************************)
C6_DatetimeUnion ==
    (pc = "alloc") =>
        LET axis == data_coords.datetime
        IN  /\ \A n \in DOMAIN da_list : \A k \in DOMAIN da_list[n].datetime :
                   \E m \in DOMAIN axis : axis[m] = da_list[n].datetime[k]
            /\ \A m \in DOMAIN axis :
                   \E n \in DOMAIN da_list : \E k \in DOMAIN da_list[n].datetime :
                       axis[m] = da_list[n].datetime[k]
            /\ \A m \in 1..(Len(axis) - 1) : axis[m] < axis[m + 1]

\* patches {T0,T1}, {T1,T2}, {T2,T3} gave [T0,T1,T2,T3]
C6_Witness ==
    /\ pc = "alloc"
    /\ Len(da_list) = 3
    /\ da_list[1].datetime = <<0, 1>>
    /\ da_list[2].datetime = <<1, 2>>
    /\ da_list[3].datetime = <<2, 3>>
    /\ data_coords.datetime = <<0, 1, 2, 3>>

(***************************************************************************)
(* C7 (longitude axis half-open).  When the longitude step dx of the first *)
(* patch divides 360, the derived longitude axis has 360/dx values: 0, dx, *)
(* 2 dx, ..., 360 - dx; 360 is not one of them.                            *)
(***************************************************************************)
C7_LonHalfOpen ==
    (pc = "alloc") =>
        LET step == Abs(da_list[1].lon[2] - da_list[1].lon[1])
            axis == data_coords.lon
        IN  (360 % step = 0) =>
                /\ Len(axis) = 360 \div step
                /\ \A i \in DOMAIN axis : axis[i] = <<(i - 1) * step, 1>>
                /\ axis[1] = <<0, 1>>
                /\ axis[Len(axis)] = <<360 - step, 1>>
                /\ \A i \in DOMAIN axis : axis[i] # <<360, 1>>

\* dx = 1: 360 values, the last one 359
C7_Witness ==
    /\ pc = "alloc"
    /\ Abs(da_list[1].lon[2] - da_list[1].lon[1]) = 1
    /\ Len(data_coords.lon) = 360
    /\ data_coords.lon[360] = <<359, 1>>

(***************************************************************************)
(* C8 (latitude axis closed).  When the latitude step dy of the first      *)
(* patch divides 180, the derived latitude axis has 180/dy + 1 values:     *)
(* -90, -90 + dy, ..., 90, both ends included.                             *)
(***************************************************************************)
C8_LatClosed ==
    (pc = "alloc") =>
        LET step == Abs(da_list[1].lat[2] - da_list[1].lat[1])
            axis == data_coords.lat
        IN  (180 % step = 0) =>
                /\ Len(axis) = (180 \div step) + 1
                /\ \A i \in DOMAIN axis : axis[i] = <<(i - 1) * step - 90, 1>>
                /\ axis[1] = <<-90, 1>>
                /\ axis[Len(axis)] = <<90, 1>>

\* dy = 1: 181 values
C8_Witness ==
    /\ pc = "alloc"
    /\ Abs(da_list[1].lat[2] - da_list[1].lat[1]) = 1
    /\ Len(data_coords.lat) = 181
    /\ data_coords.lat[181] = <<90, 1>>

\* fl holds the files of the archive sorted by epoch, files of one epoch in
\* the order of the archive
IsSortedArchive(fl) ==
    /\ Len(fl) = Len(archive)
    /\ \A i \in 1..(Len(fl) - 1) : fl[i].epoch <= fl[i + 1].epoch
    /\ \A e \in Epochs :
          LET pick(q) == {i \in DOMAIN q : q[i].epoch = e}
          IN  /\ Cardinality(pick(fl)) = Cardinality(pick(archive))
              /\ \A i \in pick(fl) :
                    LET r == Cardinality({j \in pick(fl) : j <= i})
                        a == CHOOSE a \in pick(archive) :
                                 Cardinality({j \in pick(archive) : j <= a}) = r
                    IN  fl[i] = archive[a]

\* the dims the patches have to carry by the claim
ClaimedDims ==
    LET forecast == \/ config.BERT_strategy = "forecast"
                    \/ config.BERT_strategy = "BERT" /\ call.data_type = "source"
        ens == call.data_type = "ens"
    IN  IF forecast
        THEN (IF ens THEN <<"ensemble", "ml", "datetime", "lat", "lon">>
              ELSE <<"ml", "datetime", "lat", "lon">>)
        ELSE (IF ens THEN <<"itoken", "ensemble", "t", "y", "x">>
              ELSE <<"itoken", "t", "y", "x">>)

RECURSIVE StoredPatches(_)
StoredPatches(fl) ==
    IF fl = <<>> THEN <<>> ELSE Head(fl).patches \o StoredPatches(Tail(fl))

Returned == rpc = "done" /\ rerr = "none" /\ result # "none"

\* the part of C9 about the readers and the order of the files
C9_Readers ==
    Returned =>
        /\ IsSortedArchive(filelist)
        /\ Len(da) = Len(StoredPatches(filelist))
        /\ \A n \in DOMAIN da :
              da[n] = [StoredPatches(filelist)[n] EXCEPT !.dims = ClaimedDims]

(***************************************************************************)
(* C9 (layout dispatch in read_data).  When read_data returns: every file  *)
(* was read, in the order of the sorted file list, with the forecast       *)
(* reader under BERT_strategy "forecast", and under "BERT" with the BERT   *)
(* reader unless data_type is "source" (then the forecast reader); what is *)
(* returned is the assembled global field if and only if BERT_strategy is  *)
(* "forecast" and token_overlap is a key of the configuration, and in      *)
(* every other case the list of the patches read.                          *)
(***************************************************************************)
C9_LayoutDispatch ==
    /\ C9_Readers
    /\ Returned =>
          /\ (result = "global") <=>
                 (config.BERT_strategy = "forecast" /\ config.token_overlap)
          /\ ~(config.BERT_strategy = "forecast" /\ config.token_overlap) =>
                 result = "list"

(***************************************************************************)
(* C12 (scatter-write by coordinate value).  Writing one patch sets        *)
(* exactly the cells of the global array whose datetime, lat and lon       *)
(* labels all occur in the coordinate vectors of that patch, to the value  *)
(* the patch holds at those labels, wherever the labels lie in the grid;   *)
(* every other cell, the coordinates and the patches stay as they were.    *)
(***************************************************************************)
C12_ScatterWrite ==
    [][(pc = "fill" /\ pc' = "fill" /\ idx' = idx + 1) =>
          /\ DOMAIN da_global' = DOMAIN da_global
          /\ \A c \in DOMAIN da_global :
                da_global'[c] =
                    IF HasLabels(data_coords, da_list[idx], c)
                    THEN ValueAt(data_coords, da_list[idx], c)
                    ELSE da_global[c]
          /\ da_list' = da_list
          /\ data_coords' = data_coords]_vars

\* the second patch, with latitudes 90 and -90 in that order, was written
\* around the middle row of a grid of three latitudes, which kept the values
\* of the first patch
C12_Witness ==
    /\ pc = "fill"
    /\ idx = 3
    /\ Len(data_coords.lat) = 3
    /\ da_list[2].lat = <<90, -90>>
    /\ \A c \in DOMAIN da_global :
          /\ c[2] = 2 => da_global[c] = ValueAt(data_coords, da_list[1], c)
          /\ c[2] = 3 => da_global[c] = da_list[2].data[<<c[1], 1, c[3]>>]
          /\ c[2] = 1 => da_global[c] = da_list[2].data[<<c[1], 2, c[3]>>]

(***************************************************************************)
(* C13 (off-grid patches).  When a patch has a lat, lon or datetime value  *)
(* that is not on the grid derived from the list, get_global_field raises  *)
(* and returns nothing; whenever it returns, every coordinate value of     *)
(* every patch is on the axes of the returned array.                       *)
(***************************************************************************)
C13_OffGridRaises ==
    /\ (pc = "returned") => \A n \in DOMAIN da_list : OnGrid(data_coords, da_list[n])
    /\ (Done /\ GridError(da_list) = "none"
          /\ \E n \in DOMAIN da_list : ~OnGrid(GlobalCoords(da_list), da_list[n]))
       => (pc = "raised" /\ err \in {"KeyError", "ValueError"})

\* a later patch with another spacing stopped the call with KeyError after
\* the first patch had been written
C13_Witness ==
    /\ pc = "raised"
    /\ err = "KeyError"
    /\ idx = 2
    /\ OnGrid(data_coords, da_list[1])
    /\ ~OnGrid(data_coords, da_list[2])

(***************************************************************************)
(* C15 (unsupported layout).  While BERT_strategy is neither "forecast"    *)
(* nor "BERT", a call of read_data reads no file and never starts          *)
(* get_global_field: past the file listing it stands before its first      *)
(* file with no reader or no arguments, and it ends with an exception and  *)
(* no result, also when an earlier call under another strategy left its    *)
(* reader on the object.                                                   *)
(***************************************************************************)
C15_UnsupportedFails ==
    (config.BERT_strategy \notin {"forecast", "BERT"} /\ rpc \in {"loop", "done"}) =>
        /\ result = "none"
        /\ da = <<>>
        /\ pc = "idle"
        /\ (rpc = "loop") =>
              /\ fpos = 1
              /\ Len(filelist) >= 1
              /\ (read_one_file = "unset" \/ args = "unbound")
        /\ (rpc = "done") =>
              rerr \in {"AssertionError", "FileNotFoundError",
                        "AttributeError", "UnboundLocalError"}

\* a call under an unsupported strategy ended with UnboundLocalError on an
\* object that still held the reader of an earlier forecast call
C15_Witness ==
    /\ config.BERT_strategy \notin {"forecast", "BERT"}
    /\ rpc = "done"
    /\ rerr = "UnboundLocalError"
    /\ read_one_file = "forecast"
    /\ call.data_type \in known_data_types
    /\ Len(filelist) >= 1
    /\ result = "none"

(***************************************************************************)
(* C14 (per-variable token configuration).  The dictionary                 *)
(* _get_token_config returns has one entry per variable name, and the      *)
(* entry of a variable maps general_config, vlevel, num_tokens,            *)
(* token_shape and bert_parameters to the 2nd to 6th elements of the list  *)
(* of that variable.                                                       *)
(***************************************************************************)
C14_PerVariable ==
    (tpc = "done") =>
        /\ DOMAIN token_config = {fields[i][1] : i \in DOMAIN fields}
        /\ \A i \in DOMAIN fields :
              /\ DOMAIN token_config[fields[i][1]] = Range(token_config_keys)
              /\ \A j \in DOMAIN token_config_keys :
                    token_config[fields[i][1]][token_config_keys[j]] = fields[i][j + 1]

(***************************************************************************)
(* C11 (shape follows dims).  For every first patch, in whatever order its *)
(* dims and its coordinate entries come, the allocation yields a global    *)
(* array whose dims are the dims of the first patch and whose length along *)
(* axis i is the length of the grid coordinate of dims[i].                 *)
(***************************************************************************)
C11_ShapeFollowsDims ==
    (pc = "fill" \/ (pc = "raised" /\ data_coords # NoCoords /\ idx = 0)) =>
        /\ pc = "fill"
        /\ da_global_dims = da_list[1].dims
        /\ Len(da_global_shape) = Len(da_list[1].dims)
        /\ \A i \in DOMAIN da_global_shape :
              da_global_shape[i] = CoordLen(GlobalCoords(da_list), da_list[1].dims[i])

====
